---- MODULE Spec2Model ----
(***************************************************************************)
(* hotdog: TLS log relay.  Model of src/src/kafka.rs (the Kafka engine:    *)
(* bounded crossbeam channel, connect, sendloop, delivery metrics,         *)
(* metric_name_for) and src/src/serve_tls.rs (accept_loop, the connection  *)
(* counter thread, the session tasks).                                     *)
(*                                                                         *)
(* The engine is driven either by accept_loop (serve_tls.rs) or directly   *)
(* through its public API, as the unit tests of kafka.rs do (driver =      *)
(* "test"): new, connect, with_metrics, get_sender and sendloop in any     *)
(* order the borrow rules allow.                                           *)
(***************************************************************************)
EXTENDS Integers, Sequences, FiniteSets, Bags, TLC

(* ---------------------------------------------------------------- bounds *)
\* sessions accepted by accept_loop / producers holding a sender clone
MaxConns == 2
\* messages produced by all producers of a direct caller together
MaxMsgs == 3
\* lines read (messages produced) by all sessions of accept_loop together
MaxLines == 1
\* largest configured settings.global.kafka.buffer explored (0..MaxCap)
MaxCap == 2
\* room in the broker client's internal send queue (librdkafka)
BrokerQueueMax == 1
\* longest error description explored for metric_name_for
MaxDescLen == 3

\* capacity of the connection-delta channel: bounded::<i64>(1)
ConnChanCap == 1

Sessions == 1..MaxConns

(* --------------------------------------------------------------- strings *)
\* A Rust String is modelled as a sequence of one-character strings.
Upper ==
    <<"A","B","C","D","E","F","G","H","I","J","K","L","M","N","O","P","Q","R","S","T","U","V","W","X","Y","Z">>
Lower ==
    <<"a","b","c","d","e","f","g","h","i","j","k","l","m","n","o","p","q","r","s","t","u","v","w","x","y","z">>

\* char::to_lowercase on the characters the model uses
ToLowerChar(c) ==
    IF \E i \in 1..Len(Upper) : Upper[i] = c
    THEN Lower[CHOOSE i \in 1..Len(Upper) : Upper[i] = c]
    ELSE c

\* str::to_lowercase
ToLowercase(s) == [i \in 1..Len(s) |-> ToLowerChar(s[i])]

\* index of the first occurrence of character c in s, or Len(s)+1
FirstIndexOf(s, c) ==
    IF \E i \in 1..Len(s) : s[i] = c
    THEN CHOOSE i \in 1..Len(s) : s[i] = c /\ \A j \in 1..(i-1) : s[j] # c
    ELSE Len(s) + 1

\* s.split(' ').next(): the Split iterator over any string, the empty one
\* included, yields at least one item, the text before the first ' ' (which
\* may be empty).  The result is <<item>> for Some(item), <<>> for None.
SplitSpaceNext(s) == << SubSeq(s, 1, FirstIndexOf(s, " ") - 1) >>

UnknownStr == <<"u","n","k","n","o","w","n">>
GenericStr == <<"g","e","n","e","r","i","c">>

\* (variant: the description is not lowercased)
MetricNameNoLowercase(desc) ==
    LET first == SplitSpaceNext(desc)
    IN  IF first # <<>> THEN first[1] ELSE UnknownStr

\* fn metric_name_for, applied to the text err.to_string() gives
metric_name_for(desc) ==
    LET first == SplitSpaceNext(ToLowercase(desc))
    IN  IF first # <<>> THEN first[1] ELSE UnknownStr

\* RDKafkaError's Display: "<Debug name> (<librdkafka description>)"
MessageTimedOutStr ==
    <<"M","e","s","s","a","g","e","T","i","m","e","d","O","u","t"," ","(","L","o","c","a","l",":"," ","M","e","s","s","a","g","e"," ","t","i","m","e","d"," ","o","u","t",")">>
UnknownTopicStr ==
    <<"U","n","k","n","o","w","n","T","o","p","i","c"," ","(","L","o","c","a","l",":"," ","U","n","k","n","o","w","n"," ","t","o","p","i","c",")">>
ReadOnlyStr ==
    <<"R","e","a","d","O","n","l","y"," ","(","L","o","c","a","l",":"," ","R","e","a","d","-","o","n","l","y"," ","o","b","j","e","c","t",")">>

\* characters of the descriptions metric_name_for is explored on
DescChars == {"M", "t", " ", "\t", "-"}

RECURSIVE StringsUpTo(_)
StringsUpTo(n) ==
    IF n = 0 THEN { <<>> }
    ELSE LET shorter == StringsUpTo(n - 1)
         IN  shorter \cup { Append(s, c) : s \in { t \in shorter : Len(t) = n - 1 }, c \in DescChars }

Descriptions == StringsUpTo(MaxDescLen) \cup {MessageTimedOutStr, UnknownTopicStr, ReadOnlyStr}

(* ------------------------------------------------ delivery results *)
\* What a DeliveryFuture resolves to: Ok(_), Err((KafkaError::MessageProduction(code), _))
\* or Err((any other KafkaError, _)).
DeliveryResults ==
    { [kind |-> "ok", code |-> <<>>],
      [kind |-> "production", code |-> MessageTimedOutStr],
      [kind |-> "other", code |-> <<>>] }

ResultKinds == { r.kind : r \in DeliveryResults }

\* names of the dipstick counters
SubmittedCounter == <<"kafka.submitted", <<>> >>
ErrorCounter(name) == <<"kafka.producer.error.", name>>

(* ------------------------------------------------- client configuration *)
\* A HashMap<String, String> / ClientConfig is a function from the keys it
\* holds to their values.
BootstrapServers == "bootstrap.servers"
ConfKeys == {BootstrapServers, "client.id"}
ConfValues == {"a:9092", "b:9092"}
EmptyConf == [k \in {} |-> ""]
ConfMaps == UNION { [K -> ConfValues] : K \in SUBSET ConfKeys }

\* std::env::var("KAFKA_BROKER"): Err(NotPresent), Ok(value), Err(NotUnicode)
EnvStates ==
    { [kind |-> "unset"], [kind |-> "notunicode"] } \cup { [kind |-> "set", value |-> v] : v \in ConfValues }

\* ClientConfig::set(key, value)
ConfSet(c, key, value) == [k \in DOMAIN c \cup {key} |-> IF k = key THEN value ELSE c[k]]

\* for (key, value) in rdkafka_conf.iter() { rd_conf.set(key, value); }
RECURSIVE ConfSetAll(_, _, _)
ConfSetAll(c, map, keys) ==
    IF keys = {} THEN c
    ELSE LET k == CHOOSE x \in keys : TRUE
         IN  ConfSetAll(ConfSet(c, k, map[k]), map, keys \ {k})

(* ------------------------------------------------------- crossbeam channel *)
\* (variant: one message more than the capacity is admitted)
ChanCanSendOffByOne(q, n) == Len(q) <= n

\* bounded(cap): a send completes only while fewer than cap messages are buffered
ChanCanSend(q, n) == Len(q) < n

\* (variant: the newest message is received first)
ChanPopNewest(q) == [msg |-> q[Len(q)], rest |-> SubSeq(q, 1, Len(q) - 1)]

\* recv on a non-empty channel: the oldest message, which leaves the channel
ChanPop(q) == [msg |-> Head(q), rest |-> Tail(q)]

VARIABLES
    driver,        \* "accept_loop" | "test": who owns the Kafka engine
    mainpc,        \* position of accept_loop / of the direct caller
    cap,           \* message_max given to Kafka::new
    created,       \* Kafka::new has run
    producer,      \* "None" | "Some": Kafka.producer
    metrics,       \* "None" | "Some": Kafka.metrics
    fetched,       \* how the last connect() found the broker: "none" | a ConnectOutcome
    connectRet,    \* what the last connect() returned: "none" | "true" | "false"
    queue,         \* messages buffered in the Relay Queue (tx/rx)
    slpc,          \* sendloop: "none" | "entry" | "recv" | "submit" | "panicked"
    kmsg,          \* <<m>>: the message sendloop holds between recv and send
    brokerq,       \* records in the broker client's queue, delivery pending
    nsent,         \* per producer: messages handed to producer.send so far
    pool,          \* futures on the ThreadPool whose delivery result is known
    counters,      \* bag of counter names: one copy per count(1)
    timerRunning,  \* timer handles started and still held by a closure
    timerSamples,  \* samples recorded by timer.stop(handle)
    delivered,     \* deliveries the broker client completed, per kind of result
    sess,          \* session/producer position
    nread,         \* lines a session has turned into messages
    connChan,      \* the connection-delta channel conn_tx/conn_rx
    counterUp,     \* the connection counter thread is running
    connTotal,     \* its local `connections`
    gauge,         \* <<v>>: last value published to the `connections` gauge
    stream,        \* the item incoming.next() yielded: "none" | "ok" | "err"
    accepts,       \* connections accepted (streams that were Ok)
    desc,          \* metric_name_for: the description under test
    name,          \* metric_name_for: <<result>> once it returned
    npc,           \* "off" | "call" | "returned"
    rdkafka_conf,  \* connect: the configuration map handed to it
    kafkaBrokerEnv,\* connect: the KAFKA_BROKER environment variable
    rd_conf,       \* connect: the ClientConfig being built
    consumerConf,  \* connect: <<config the metadata consumer was created from>>
    producerConf,  \* connect: <<config the stored producer was created from>>
    cpc            \* connect: "off" | "set" | "env" | "consumer" | "fetch" | "producer" | "returned" | "panicked"

engineVars == <<cap, created, producer, metrics, fetched, connectRet>>
relayVars == <<queue, slpc, kmsg, brokerq, nsent>>
metricVars == <<pool, counters, timerRunning, timerSamples, delivered>>
sessVars == <<sess, nread>>
connVars == <<connChan, counterUp, connTotal, gauge, stream, accepts>>
nameVars == <<desc, name, npc>>
confVars == <<rdkafka_conf, kafkaBrokerEnv, rd_conf, consumerConf, producerConf, cpc>>
vars == <<driver, mainpc, engineVars, relayVars, metricVars, sessVars, connVars, nameVars, confVars>>

\* message k of session s
Msg(s, k) == <<s, k>>

RECURSIVE SumUpTo(_, _)
SumUpTo(f, n) == IF n = 0 THEN 0 ELSE f[n] + SumUpTo(f, n - 1)

\* lines read so far by all sessions
TotalRead == SumUpTo(nread, MaxConns)

ProgramInit ==
    /\ driver \in {"accept_loop", "test"}
    /\ mainpc = IF driver = "accept_loop" THEN "load_tls" ELSE "new"
    /\ cap \in 0..MaxCap
    /\ created = FALSE
    /\ producer = "None"
    /\ metrics = "None"
    /\ fetched = "none"
    /\ connectRet = "none"
    /\ queue = <<>>
    /\ slpc = "none"
    /\ kmsg = <<>>
    /\ brokerq = {}
    /\ nsent = [s \in Sessions |-> 0]
    /\ pool = {}
    /\ counters = EmptyBag
    /\ timerRunning = {}
    /\ timerSamples = 0
    /\ delivered = [k \in ResultKinds |-> 0]
    /\ sess = [s \in Sessions |-> "none"]
    /\ nread = [s \in Sessions |-> 0]
    /\ connChan = <<>>
    /\ counterUp = FALSE
    /\ connTotal = 0
    /\ gauge = <<>>
    /\ stream = "none"
    /\ accepts = 0

\* connect's configuration is not looked into: no map, no environment
ConfOff ==
    /\ rdkafka_conf = EmptyConf
    /\ kafkaBrokerEnv = [kind |-> "unset"]
    /\ rd_conf = EmptyConf
    /\ consumerConf = <<>>
    /\ producerConf = <<>>
    /\ cpc = "off"

Init ==
    /\ ProgramInit
    /\ desc = <<>>
    /\ name = <<>>
    /\ npc = "off"
    /\ ConfOff

(* ------------------------------------------------------------ Kafka engine *)
\* Kafka::new(message_max): the channel is created empty, no producer, no metrics
KafkaNew ==
    /\ mainpc = "new"
    /\ created' = TRUE
    /\ mainpc' = IF driver = "accept_loop" THEN "connect" ELSE "test"
    /\ UNCHANGED <<driver, cap, producer, metrics, fetched, connectRet>>
    /\ UNCHANGED <<relayVars, metricVars, sessVars, connVars, nameVars, confVars>>

\* what one connect() call meets: consumer.fetch_metadata returns Ok
\* ("reachable") or Err ("unreachable"), or rdkafka rejects the configuration
ConnectOutcomes == {"reachable", "unreachable", "badconf"}

\* (variant: a failed connect clears the producer)
ConnectClearsProducer(out) ==
    /\ fetched' = out
    /\ producer' = IF out = "reachable" THEN "Some" ELSE "None"
    /\ connectRet' = CASE out = "reachable" -> "true"
                       [] out = "unreachable" -> "false"
                       [] OTHER -> connectRet
    /\ UNCHANGED <<cap, created, metrics>>

\* Kafka::connect: fetch_metadata succeeds -> the producer is stored, true;
\* it fails -> warn!, false; a configuration rdkafka rejects -> expect() panics
Connect(out) ==
    /\ fetched' = out
    /\ producer' = IF out = "reachable" THEN "Some" ELSE producer
    /\ connectRet' = CASE out = "reachable" -> "true"
                       [] out = "unreachable" -> "false"
                       [] OTHER -> connectRet
    /\ UNCHANGED <<cap, created, metrics>>

\* Kafka::with_metrics
WithMetrics ==
    /\ metrics' = "Some"
    /\ UNCHANGED <<cap, created, producer, fetched, connectRet>>

\* (variant: the loop is entered without looking at the producer)
SendloopEntryUnchecked ==
    /\ slpc = "entry"
    /\ slpc' = "recv"
    /\ UNCHANGED <<driver, mainpc, engineVars, queue, kmsg, brokerq, nsent>>
    /\ UNCHANGED <<metricVars, sessVars, connVars, nameVars, confVars>>

\* sendloop, lines 131-136: without a producer it panics before the loop
SendloopEntry ==
    /\ slpc = "entry"
    /\ slpc' = IF producer = "None" THEN "panicked" ELSE "recv"
    /\ UNCHANGED <<driver, mainpc, engineVars, queue, kmsg, brokerq, nsent>>
    /\ UNCHANGED <<metricVars, sessVars, connVars, nameVars, confVars>>

\* the senders blocked in send() on the channel
BlockedSenders == { s \in Sessions : sess[s] = "enqueue" }

\* self.rx.recv_timeout(..) returns Ok(kmsg): the oldest buffered message, or,
\* on a zero-capacity channel, the message of a sender waiting in send(), which
\* thereby completes.  With metrics the timer is started before producer.send.
SendloopRecv ==
    /\ slpc = "recv"
    /\ \/ /\ queue # <<>>
          /\ kmsg' = << ChanPop(queue).msg >>
          /\ queue' = ChanPop(queue).rest
          /\ UNCHANGED sess
       \/ /\ cap = 0
          /\ \E s \in BlockedSenders :
                /\ kmsg' = << Msg(s, nread[s]) >>
                /\ sess' = [sess EXCEPT ![s] = "reading"]
          /\ UNCHANGED queue
    /\ timerRunning' = IF metrics = "Some" THEN timerRunning \cup {kmsg'[1]} ELSE timerRunning
    /\ slpc' = "submit"
    /\ UNCHANGED <<driver, mainpc, engineVars, brokerq, nsent, nread>>
    /\ UNCHANGED <<pool, counters, timerSamples, delivered, connVars, nameVars, confVars>>

\* (variant: an expired receive ends the loop)
SendloopTimeoutReturns ==
    /\ slpc = "recv"
    /\ queue = <<>>
    /\ ~(cap = 0 /\ BlockedSenders # {})
    /\ slpc' = "returned"
    /\ UNCHANGED <<driver, mainpc, engineVars, queue, kmsg, brokerq, nsent>>
    /\ UNCHANGED <<metricVars, sessVars, connVars, nameVars, confVars>>

\* self.rx.recv_timeout(..) returns Err after 100 ms without a message: loop
\* again, at the same place and with nothing changed
SendloopTimeout ==
    /\ slpc = "recv"
    /\ queue = <<>>
    /\ ~(cap = 0 /\ BlockedSenders # {})
    /\ slpc' = "recv"
    /\ UNCHANGED <<driver, mainpc, engineVars, queue, kmsg, brokerq, nsent>>
    /\ UNCHANGED <<metricVars, sessVars, connVars, nameVars, confVars>>

\* producer.send(record, -1) has room in the client's queue
BrokerHasRoom == Cardinality(brokerq) < BrokerQueueMax

\* (variant: a finite block_ms, the record is given up when the queue is full)
SendloopSubmitFailFast ==
    /\ slpc = "submit"
    /\ IF BrokerHasRoom
       THEN /\ brokerq' = brokerq \cup {kmsg[1]}
            /\ nsent' = [nsent EXCEPT ![kmsg[1][1]] = @ + 1]
       ELSE UNCHANGED <<brokerq, nsent>>
    /\ kmsg' = <<>>
    /\ slpc' = "recv"
    /\ UNCHANGED <<driver, mainpc, engineVars, queue>>
    /\ UNCHANGED <<metricVars, sessVars, connVars, nameVars, confVars>>

\* (variant: the loop waits for the outcome of the previous record first)
SendloopSubmitAwaitsOutcome ==
    /\ slpc = "submit"
    /\ BrokerHasRoom
    /\ brokerq = {} /\ pool = {}
    /\ brokerq' = brokerq \cup {kmsg[1]}
    /\ nsent' = [nsent EXCEPT ![kmsg[1][1]] = @ + 1]
    /\ kmsg' = <<>>
    /\ slpc' = "recv"
    /\ UNCHANGED <<driver, mainpc, engineVars, queue>>
    /\ UNCHANGED <<metricVars, sessVars, connVars, nameVars, confVars>>

\* producer.send(record, -1): returns once the record is in the client's queue;
\* with metrics the future is spawned on the pool, without it is dropped
SendloopSubmit ==
    /\ slpc = "submit"
    /\ BrokerHasRoom
    /\ brokerq' = brokerq \cup {kmsg[1]}
    /\ nsent' = [nsent EXCEPT ![kmsg[1][1]] = @ + 1]
    /\ kmsg' = <<>>
    /\ slpc' = "recv"
    /\ UNCHANGED <<driver, mainpc, engineVars, queue>>
    /\ UNCHANGED <<metricVars, sessVars, connVars, nameVars, confVars>>

\* the broker client completes a delivery: the DeliveryFuture resolves
BrokerDeliver ==
    \E m \in brokerq, res \in DeliveryResults :
        /\ brokerq' = brokerq \ {m}
        /\ delivered' = [delivered EXCEPT ![res.kind] = @ + 1]
        /\ pool' = IF metrics = "Some" THEN pool \cup {[msg |-> m, res |-> res]} ELSE pool
        /\ UNCHANGED <<driver, mainpc, engineVars, queue, slpc, kmsg, nsent>>
        /\ UNCHANGED <<counters, timerRunning, timerSamples, sessVars, connVars, nameVars, confVars>>

\* (variant: the catch-all arm only logs)
OutcomeCountersNoGeneric(res) ==
    CASE res.kind = "ok" -> SetToBag({SubmittedCounter})
      [] res.kind = "production" -> SetToBag({ErrorCounter(metric_name_for(res.code))})
      [] OTHER -> EmptyBag

\* the counters the completion closure increments for a delivery result
OutcomeCounters(res) ==
    CASE res.kind = "ok" -> SetToBag({SubmittedCounter})
      [] res.kind = "production" -> SetToBag({ErrorCounter(metric_name_for(res.code))})
      [] OTHER -> SetToBag({ErrorCounter(GenericStr)})

\* (variant: the timer is stopped whatever the result)
OutcomeTimerStopsAlways(res, handle) == {handle}

\* the timer handles it passes to timer.stop(): its own, on success only
OutcomeTimerStops(res, handle) ==
    IF res.kind = "ok" THEN {handle} ELSE {}

\* (variant: the closure hands a failed record to the producer again)
PoolRunResubmits ==
    \E task \in pool :
        /\ pool' = pool \ {task}
        /\ counters' = counters (+) OutcomeCounters(task.res)
        /\ timerSamples' = timerSamples + Cardinality(OutcomeTimerStops(task.res, task.msg) \cap timerRunning)
        /\ timerRunning' = timerRunning \ {task.msg}
        /\ IF task.res.kind = "ok"
           THEN UNCHANGED <<brokerq, nsent>>
           ELSE /\ brokerq' = brokerq \cup {task.msg}
                /\ nsent' = [nsent EXCEPT ![task.msg[1]] = @ + 1]
        /\ UNCHANGED <<driver, mainpc, engineVars, queue, slpc, kmsg>>
        /\ UNCHANGED <<delivered, sessVars, connVars, nameVars, confVars>>

\* the closure given to .then(), run on the ThreadPool
PoolRun ==
    \E task \in pool :
        /\ pool' = pool \ {task}
        /\ counters' = counters (+) OutcomeCounters(task.res)
        /\ timerSamples' = timerSamples + Cardinality(OutcomeTimerStops(task.res, task.msg) \cap timerRunning)
        /\ timerRunning' = timerRunning \ {task.msg}
        /\ UNCHANGED <<driver, mainpc, engineVars, relayVars>>
        /\ UNCHANGED <<delivered, sessVars, connVars, nameVars, confVars>>

(* ------------------------------------------------- sessions and producers *)
\* (variant: a failed handshake ends the session task before its ctx.send(-1))
SessionHandshakeSkipsDelta(s) ==
    /\ sess[s] = "handshake"
    /\ \E ok \in BOOLEAN : sess' = [sess EXCEPT ![s] = IF ok THEN "reading" ELSE "done"]
    /\ UNCHANGED <<driver, mainpc, engineVars, relayVars, metricVars, nread, connVars, nameVars, confVars>>

\* handle_connection up to read_logs: peer_addr() or the TLS handshake may fail
SessionHandshake(s) ==
    /\ sess[s] = "handshake"
    /\ \E ok \in BOOLEAN : sess' = [sess EXCEPT ![s] = IF ok THEN "reading" ELSE "closing"]
    /\ UNCHANGED <<driver, mainpc, engineVars, relayVars, metricVars, nread, connVars, nameVars, confVars>>

\* the line collaborator turns the next line into a message and calls send()
Produce(s) ==
    /\ sess[s] = "reading"
    /\ TotalRead < (IF driver = "accept_loop" THEN MaxLines ELSE MaxMsgs)
    /\ nread' = [nread EXCEPT ![s] = @ + 1]
    /\ sess' = [sess EXCEPT ![s] = "enqueue"]
    /\ UNCHANGED <<driver, mainpc, engineVars, relayVars, metricVars, connVars, nameVars, confVars>>

\* its send() completes: the channel has room for the message
Enqueue(s) ==
    /\ sess[s] = "enqueue"
    /\ ChanCanSend(queue, cap)
    /\ queue' = Append(queue, Msg(s, nread[s]))
    /\ sess' = [sess EXCEPT ![s] = "reading"]
    /\ UNCHANGED <<driver, mainpc, engineVars, slpc, kmsg, brokerq, nsent>>
    /\ UNCHANGED <<metricVars, nread, connVars, nameVars, confVars>>

\* the stream ends or fails: read_logs and handle_connection return
ReadLogsEnd(s) ==
    /\ driver = "accept_loop"
    /\ sess[s] = "reading"
    /\ sess' = [sess EXCEPT ![s] = "closing"]
    /\ UNCHANGED <<driver, mainpc, engineVars, relayVars, metricVars, nread, connVars, nameVars, confVars>>

\* ctx.send(-1).unwrap() at the end of the session task
SessionClose(s) ==
    /\ sess[s] = "closing"
    /\ ChanCanSend(connChan, ConnChanCap)
    /\ connChan' = Append(connChan, -1)
    /\ sess' = [sess EXCEPT ![s] = "done"]
    /\ UNCHANGED <<driver, mainpc, engineVars, relayVars, metricVars, nread>>
    /\ UNCHANGED <<counterUp, connTotal, gauge, stream, accepts, nameVars, confVars>>

(* ------------------------------------------------------------- accept_loop *)
\* load_tls_config(&settings)?: Ok, an io::Error, or the panic on a non-TLS listen mode
LoadTlsConfig ==
    /\ mainpc = "load_tls"
    /\ \E r \in {"new", "ret_err", "panicked"} : mainpc' = r
    /\ UNCHANGED <<driver, engineVars, relayVars, metricVars, sessVars, connVars, nameVars, confVars>>

\* (variant: accept_loop goes on whatever connect returned)
AfterConnectIgnoresResult(out) ==
    CASE out = "reachable" -> "with_metrics"
      [] out = "unreachable" -> "with_metrics"
      [] OTHER -> "panicked"

\* where accept_loop goes on after connect: if !kafka.connect(..) { return Ok(()) }
AfterConnect(out) ==
    CASE out = "reachable" -> "with_metrics"
      [] out = "unreachable" -> "ret_ok"
      [] OTHER -> "panicked"

\* kafka.connect(..) returns (or panics) in accept_loop
AcceptConnect ==
    /\ driver = "accept_loop"
    /\ mainpc = "connect"
    /\ \E out \in ConnectOutcomes :
          /\ Connect(out)
          /\ mainpc' = AfterConnect(out)
    /\ UNCHANGED <<driver, relayVars, metricVars, sessVars, connVars, nameVars, confVars>>

\* kafka.with_metrics(metrics.clone()); let sender = kafka.get_sender();
AcceptWithMetrics ==
    /\ mainpc = "with_metrics"
    /\ WithMetrics
    /\ mainpc' = "spawn_sendloop"
    /\ UNCHANGED <<driver, relayVars, metricVars, sessVars, connVars, nameVars, confVars>>

\* task::spawn(async move { kafka.sendloop(); })
AcceptSpawnSendloop ==
    /\ mainpc = "spawn_sendloop"
    /\ slpc' = "entry"
    /\ mainpc' = "bind"
    /\ UNCHANGED <<driver, engineVars, queue, kmsg, brokerq, nsent>>
    /\ UNCHANGED <<metricVars, sessVars, connVars, nameVars, confVars>>

\* TcpListener::bind(&addr).await?
AcceptBind ==
    /\ mainpc = "bind"
    /\ \E r \in {"spawn_counter", "ret_err"} : mainpc' = r
    /\ UNCHANGED <<driver, engineVars, relayVars, metricVars, sessVars, connVars, nameVars, confVars>>

\* std::thread::spawn of the connection counter, connections = 0
AcceptSpawnCounter ==
    /\ mainpc = "spawn_counter"
    /\ counterUp' = TRUE
    /\ mainpc' = "incoming"
    /\ UNCHANGED <<driver, engineVars, relayVars, metricVars, sessVars>>
    /\ UNCHANGED <<connChan, connTotal, gauge, stream, accepts, nameVars, confVars>>

\* incoming.next().await yields a stream or an accept error
AcceptIncoming ==
    /\ mainpc = "incoming"
    /\ accepts < MaxConns
    /\ \E item \in {"ok", "err"} : stream' = item
    /\ mainpc' = "send_plus"
    /\ UNCHANGED <<driver, engineVars, relayVars, metricVars, sessVars>>
    /\ UNCHANGED <<connChan, counterUp, connTotal, gauge, accepts, nameVars, confVars>>

\* (variant: the +1 is sent with try_send and lost when the channel is full)
AcceptStreamTrySend ==
    /\ mainpc = "send_plus"
    /\ connChan' = IF ChanCanSend(connChan, ConnChanCap) THEN Append(connChan, 1) ELSE connChan
    /\ IF stream = "ok"
       THEN /\ accepts' = accepts + 1
            /\ sess' = [sess EXCEPT ![accepts + 1] = "handshake"]
            /\ mainpc' = "incoming"
       ELSE /\ mainpc' = "ret_err"
            /\ UNCHANGED <<accepts, sess>>
    /\ stream' = "none"
    /\ UNCHANGED <<driver, engineVars, relayVars, metricVars, nread>>
    /\ UNCHANGED <<counterUp, connTotal, gauge, nameVars, confVars>>

\* (variant: the session is awaited in the loop instead of being spawned)
AcceptStreamAwaitsSessions ==
    /\ mainpc = "send_plus"
    /\ \A s \in Sessions : sess[s] \in {"none", "done"}
    /\ ChanCanSend(connChan, ConnChanCap)
    /\ connChan' = Append(connChan, 1)
    /\ IF stream = "ok"
       THEN /\ accepts' = accepts + 1
            /\ sess' = [sess EXCEPT ![accepts + 1] = "handshake"]
            /\ mainpc' = "incoming"
       ELSE /\ mainpc' = "ret_err"
            /\ UNCHANGED <<accepts, sess>>
    /\ stream' = "none"
    /\ UNCHANGED <<driver, engineVars, relayVars, metricVars, nread>>
    /\ UNCHANGED <<counterUp, connTotal, gauge, nameVars, confVars>>

\* conn_tx.send(1).unwrap(); let mut stream = stream?; ...; task::spawn(session)
AcceptStream ==
    /\ mainpc = "send_plus"
    /\ ChanCanSend(connChan, ConnChanCap)
    /\ connChan' = Append(connChan, 1)
    /\ IF stream = "ok"
       THEN /\ accepts' = accepts + 1
            /\ sess' = [sess EXCEPT ![accepts + 1] = "handshake"]
            /\ mainpc' = "incoming"
       ELSE /\ mainpc' = "ret_err"
            /\ UNCHANGED <<accepts, sess>>
    /\ stream' = "none"
    /\ UNCHANGED <<driver, engineVars, relayVars, metricVars, nread>>
    /\ UNCHANGED <<counterUp, connTotal, gauge, nameVars, confVars>>

\* the counter thread: recv a delta, add it, publish the total to the gauge
CounterRecv ==
    /\ counterUp
    /\ connChan # <<>>
    /\ connTotal' = connTotal + ChanPop(connChan).msg
    /\ connChan' = ChanPop(connChan).rest
    /\ gauge' = << connTotal' >>
    /\ UNCHANGED <<driver, mainpc, engineVars, relayVars, metricVars, sessVars>>
    /\ UNCHANGED <<counterUp, stream, accepts, nameVars, confVars>>

(* ------------------------------------------------ direct use of the engine *)
\* k.connect(&conf, timeout) is called, as test_connect_bad_cluster does: the
\* caller is inside connect (the blocking metadata fetch) until it returns
TestConnectCall ==
    /\ mainpc = "test"
    /\ slpc = "none"
    /\ mainpc' = "connect"
    /\ UNCHANGED <<driver, engineVars, relayVars, metricVars, sessVars, connVars, nameVars, confVars>>

\* and returns (or panics)
TestConnect ==
    /\ driver = "test"
    /\ mainpc = "connect"
    /\ \E out \in ConnectOutcomes :
          /\ Connect(out)
          /\ mainpc' = IF out = "badconf" THEN "panicked" ELSE "test"
    /\ UNCHANGED <<driver, relayVars, metricVars, sessVars, connVars, nameVars, confVars>>

\* k.with_metrics(..)
TestWithMetrics ==
    /\ mainpc = "test"
    /\ slpc = "none"
    /\ metrics = "None"
    /\ WithMetrics
    /\ UNCHANGED <<driver, mainpc, relayVars, metricVars, sessVars, connVars, nameVars, confVars>>

\* k.get_sender(), the clone given to a producer thread
TestGetSender ==
    /\ mainpc = "test"
    /\ \E s \in Sessions :
          /\ sess[s] = "none"
          /\ \A r \in 1..(s - 1) : sess[r] # "none"
          /\ sess' = [sess EXCEPT ![s] = "reading"]
    /\ UNCHANGED <<driver, mainpc, engineVars, relayVars, metricVars, nread, connVars, nameVars, confVars>>

\* k.sendloop() on its own thread
TestSendloop ==
    /\ mainpc = "test"
    /\ slpc = "none"
    /\ slpc' = "entry"
    /\ UNCHANGED <<driver, mainpc, engineVars, queue, kmsg, brokerq, nsent>>
    /\ UNCHANGED <<metricVars, sessVars, connVars, nameVars, confVars>>

(* ----------------------------------------- connect, configuration in detail *)
\* connect, lines 77-81: a fresh ClientConfig receives every entry of the map
ConnectSetKeys ==
    /\ mainpc = "connect"
    /\ cpc = "set"
    /\ rd_conf' = ConfSetAll(EmptyConf, rdkafka_conf, DOMAIN rdkafka_conf)
    /\ cpc' = "env"
    /\ UNCHANGED <<driver, mainpc, engineVars, relayVars, metricVars, sessVars, connVars, nameVars>>
    /\ UNCHANGED <<rdkafka_conf, kafkaBrokerEnv, consumerConf, producerConf>>

\* (variant: KAFKA_BROKER is used only when the map names no broker)
EnvOverrideOnlyIfAbsent(c, env) ==
    IF env.kind = "set" /\ BootstrapServers \notin DOMAIN c
    THEN ConfSet(c, BootstrapServers, env.value)
    ELSE c

\* lines 86-88: if let Ok(broker) = env::var("KAFKA_BROKER") { rd_conf.set(..) }
EnvOverride(c, env) ==
    IF env.kind = "set" THEN ConfSet(c, BootstrapServers, env.value) ELSE c

ConnectEnvOverride ==
    /\ cpc = "env"
    /\ rd_conf' = EnvOverride(rd_conf, kafkaBrokerEnv)
    /\ cpc' = "consumer"
    /\ UNCHANGED <<driver, mainpc, engineVars, relayVars, metricVars, sessVars, connVars, nameVars>>
    /\ UNCHANGED <<rdkafka_conf, kafkaBrokerEnv, consumerConf, producerConf>>

\* lines 90-92: rd_conf.create() for the metadata consumer, or expect() panics
ConnectCreateConsumer ==
    /\ cpc = "consumer"
    /\ \/ /\ consumerConf' = << rd_conf >>
          /\ cpc' = "fetch"
          /\ UNCHANGED <<mainpc, engineVars>>
       \/ /\ Connect("badconf")
          /\ mainpc' = "panicked"
          /\ cpc' = "panicked"
          /\ UNCHANGED consumerConf
    /\ UNCHANGED <<driver, relayVars, metricVars, sessVars, connVars, nameVars>>
    /\ UNCHANGED <<rdkafka_conf, kafkaBrokerEnv, rd_conf, producerConf>>

\* lines 99 and 114-116: consumer.fetch_metadata(None, timeout) is Ok, or it
\* is Err and connect returns false
ConnectFetchMetadata ==
    /\ cpc = "fetch"
    /\ \/ /\ cpc' = "producer"
          /\ UNCHANGED <<mainpc, engineVars>>
       \/ /\ Connect("unreachable")
          /\ mainpc' = "test"
          /\ cpc' = "returned"
    /\ UNCHANGED <<driver, relayVars, metricVars, sessVars, connVars, nameVars>>
    /\ UNCHANGED <<rdkafka_conf, kafkaBrokerEnv, rd_conf, consumerConf, producerConf>>

\* lines 105-111: self.producer = Some(rd_conf.create().expect(..)); return true
ConnectCreateProducer ==
    /\ cpc = "producer"
    /\ \/ /\ Connect("reachable")
          /\ producerConf' = << rd_conf >>
          /\ mainpc' = "test"
          /\ cpc' = "returned"
       \/ /\ Connect("badconf")
          /\ mainpc' = "panicked"
          /\ cpc' = "panicked"
          /\ UNCHANGED producerConf
    /\ UNCHANGED <<driver, relayVars, metricVars, sessVars, connVars, nameVars>>
    /\ UNCHANGED <<rdkafka_conf, kafkaBrokerEnv, rd_conf, consumerConf>>

(* --------------------------------------------------------- metric_name_for *)
MetricNameCall ==
    /\ npc = "call"
    /\ name' = << metric_name_for(desc) >>
    /\ npc' = "returned"
    /\ UNCHANGED <<driver, mainpc, engineVars, relayVars, metricVars, sessVars, connVars, desc, confVars>>

(* ----------------------------------------------------------- specifications *)
Next ==
    \/ KafkaNew
    \/ SendloopEntry
    \/ SendloopRecv
    \/ SendloopTimeout
    \/ SendloopSubmit
    \/ BrokerDeliver
    \/ PoolRun
    \/ \E s \in Sessions : SessionHandshake(s)
    \/ \E s \in Sessions : Produce(s)
    \/ \E s \in Sessions : Enqueue(s)
    \/ \E s \in Sessions : ReadLogsEnd(s)
    \/ \E s \in Sessions : SessionClose(s)
    \/ LoadTlsConfig
    \/ AcceptConnect
    \/ AcceptWithMetrics
    \/ AcceptSpawnSendloop
    \/ AcceptBind
    \/ AcceptSpawnCounter
    \/ AcceptIncoming
    \/ AcceptStream
    \/ CounterRecv
    \/ TestConnectCall
    \/ TestConnect
    \/ TestWithMetrics
    \/ TestGetSender
    \/ TestSendloop

Spec == Init /\ [][Next]_vars

\* metric_name_for on every description of the bounded set
NameInit ==
    /\ ProgramInit
    /\ driver = "test"
    /\ cap = 0
    /\ desc \in Descriptions
    /\ name = <<>>
    /\ npc = "call"
    /\ ConfOff

NameNext == MetricNameCall

NameSpec == NameInit /\ [][NameNext]_vars

\* one connect call on every configuration map and KAFKA_BROKER setting of the
\* bounded sets, followed step by step
ConfInit ==
    /\ ProgramInit
    /\ driver = "test"
    /\ cap = 0
    /\ desc = <<>>
    /\ name = <<>>
    /\ npc = "off"
    /\ rdkafka_conf \in ConfMaps
    /\ kafkaBrokerEnv \in EnvStates
    /\ rd_conf = EmptyConf
    /\ consumerConf = <<>>
    /\ producerConf = <<>>
    /\ cpc = "set"

ConfNext ==
    \/ KafkaNew
    \/ TestConnectCall
    \/ ConnectSetKeys
    \/ ConnectEnvOverride
    \/ ConnectCreateConsumer
    \/ ConnectFetchMetadata
    \/ ConnectCreateProducer

ConfSpec == ConfInit /\ [][ConfNext]_vars

\* Scheduling: the sendloop task and the counter thread are threads of their
\* own that are never starved, so each of their steps that stays possible is
\* taken; the broker client completes every delivery it holds; a sender
\* blocked on a crossbeam channel is woken in turn, so a send that is possible
\* again and again completes.
Fairness ==
    /\ WF_vars(SendloopEntry)
    /\ WF_vars(SendloopRecv)
    /\ WF_vars(SendloopSubmit)
    /\ WF_vars(BrokerDeliver)
    /\ WF_vars(CounterRecv)
    /\ SF_vars(AcceptStream)
    /\ \A s \in Sessions : SF_vars(Enqueue(s)) /\ SF_vars(SessionClose(s))

FairSpec == Init /\ [][Next]_vars /\ Fairness

(* ================================================================ claims *)
\* enqueues of producer s that have completed
Enqueued(s) == IF sess[s] = "enqueue" THEN nread[s] - 1 ELSE nread[s]

\* messages of producer s the delivery loop has dequeued
Dequeued(s) == nsent[s] + (IF kmsg # <<>> /\ kmsg[1][1] = s THEN 1 ELSE 0)

TotalEnqueued == SumUpTo([s \in Sessions |-> Enqueued(s)], MaxConns)
TotalDequeued == SumUpTo([s \in Sessions |-> Dequeued(s)], MaxConns)
TotalSent == SumUpTo(nsent, MaxConns)

C2_ProducerOrder ==
    /\ kmsg # <<>> => kmsg[1][2] = nsent[kmsg[1][1]] + 1
    /\ \A s \in Sessions : nsent[s] <= Enqueued(s)

\* the second message of one producer is dequeued after its first was
\* submitted, with a message of the other producer still queued behind it
C2_Witness ==
    \E s \in Sessions, r \in Sessions :
        /\ r # s
        /\ kmsg = << Msg(s, 2) >>
        /\ nsent[s] = 1
        /\ queue = << Msg(r, 1) >>

\* C3: the connection total of the counter thread, and with it every value
\* published to the gauge, is never negative.
C3_CountNonNegative ==
    /\ connTotal >= 0
    /\ gauge # <<>> => gauge[1] >= 0

\* both deltas of a finished session are applied while another session is open
C3_Witness ==
    /\ \E s \in Sessions : sess[s] = "done"
    /\ \E s \in Sessions : sess[s] \in {"handshake", "reading", "enqueue"}
    /\ connChan = <<>>
    /\ connTotal = 1
    /\ gauge = <<1>>

\* sessions whose task has ended, its -1 sent
Concluded == { s \in Sessions : sess[s] = "done" }

\* C4: with no accept in progress and every delta sent applied, the gauge
\* equals the connections accepted minus the sessions concluded.
C4_GaugeIsAcceptsMinusConcluded ==
    (counterUp /\ mainpc \in {"incoming", "ret_err"} /\ connChan = <<>>)
        => /\ connTotal = accepts - Cardinality(Concluded)
           /\ gauge # <<>> => gauge[1] = accepts - Cardinality(Concluded)

\* C5: the delivery loop dequeues and submits only with a producer: started
\* without one it panics with nothing dequeued, and accept_loop starts it only
\* after connect returned true.
C5_LoopOnlyWhenConnected ==
    /\ slpc \in {"recv", "submit"} => producer = "Some"
    /\ (kmsg # <<>> \/ TotalSent > 0 \/ brokerq # {}) => producer = "Some"
    /\ slpc = "panicked" => (producer = "None" /\ TotalDequeued = 0)
    /\ (driver = "accept_loop" /\ slpc # "none") => (connectRet = "true" /\ producer = "Some")

\* sendloop was called on an engine that never connected, with a message queued
C5_Witness ==
    /\ slpc = "panicked"
    /\ connectRet # "true"
    /\ queue # <<>>

\* C6: a connect whose metadata fetch fails returns false and leaves the
\* producer, the Relay Queue and the metrics as they were.
C6_FailedConnectChangesNothing ==
    [][ (mainpc = "connect" /\ mainpc' # "connect" /\ fetched' = "unreachable")
            => /\ connectRet' = "false"
               /\ producer' = producer
               /\ queue' = queue
               /\ cap' = cap
               /\ metrics' = metrics
               /\ metricVars' = metricVars ]_vars

\* a connect failed on an engine that had connected before, messages queued
C6_Witness ==
    /\ fetched = "unreachable"
    /\ connectRet = "false"
    /\ producer = "Some"
    /\ queue # <<>>

\* futures on the pool whose result is of the given kind
Pending(kind) == Cardinality({ task \in pool : task.res.kind = kind })

Count(counter) == CopiesIn(counter, counters)

\* count(1) calls made on the error counters
ErrorIncrements == BagCardinality(counters) - Count(SubmittedCounter)

\* the messages whose closure has not run yet
InFlight == { kmsg[i] : i \in 1..Len(kmsg) } \cup brokerq \cup { task.msg : task \in pool }

\* C7: with metrics, every successful delivery whose closure has run counted
\* once on kafka.submitted and stopped its own timer once, and no success
\* incremented an error counter.
C7_SuccessCounted ==
    metrics = "Some"
        => /\ Count(SubmittedCounter) + Pending("ok") = delivered["ok"]
           /\ timerSamples = Count(SubmittedCounter)
           /\ ErrorIncrements + Pending("production") + Pending("other")
                 = delivered["production"] + delivered["other"]
           /\ timerRunning = InFlight

\* two successes and a failure, all accounted
C7_Witness ==
    /\ metrics = "Some"
    /\ pool = {}
    /\ delivered["ok"] = 2
    /\ Count(SubmittedCounter) = 2
    /\ timerSamples = 2
    /\ ErrorIncrements = 1

MessageTimedOutName == <<"m","e","s","s","a","g","e","t","i","m","e","d","o","u","t">>

\* C8: with metrics, every failed delivery whose closure has run incremented
\* exactly one error counter, kafka.producer.error.<name of the code> for a
\* production failure and kafka.producer.error.generic for any other, and
\* none incremented kafka.submitted.
C8_FailureCounted ==
    metrics = "Some"
        => /\ Count(ErrorCounter(MessageTimedOutName)) + Pending("production") = delivered["production"]
           /\ Count(ErrorCounter(GenericStr)) + Pending("other") = delivered["other"]
           /\ BagCardinality(counters) + Cardinality(pool)
                 = delivered["ok"] + delivered["production"] + delivered["other"]

\* one failure of each kind, both counted, nothing on kafka.submitted
C8_Witness ==
    /\ metrics = "Some"
    /\ pool = {}
    /\ Count(ErrorCounter(MessageTimedOutName)) = 1
    /\ Count(ErrorCounter(GenericStr)) = 1
    /\ Count(SubmittedCounter) = 0

WhiteChars == {" ", "\t"}

\* the first whitespace-delimited token of s (s.split_whitespace().next()),
\* <<token>> or <<>> when s holds nothing but whitespace
FirstWhitespaceToken(s) ==
    LET starts == { i \in 1..Len(s) : s[i] \notin WhiteChars }
    IN  IF starts = {} THEN <<>>
        ELSE LET b == CHOOSE i \in starts : \A j \in starts : i <= j
                 ends == { i \in b..Len(s) : s[i] \in WhiteChars }
                 e == IF ends = {} THEN Len(s) + 1
                      ELSE CHOOSE i \in ends : \A j \in ends : i <= j
             IN  << SubSeq(s, b, e - 1) >>

UnknownTopicName == <<"u","n","k","n","o","w","n","t","o","p","i","c">>
ReadOnlyName == <<"r","e","a","d","o","n","l","y">>

notSessVars == <<driver, mainpc, engineVars, relayVars, metricVars, nread, connVars>>

\* session s fails in this step: peer_addr() or the handshake fails, or the
\* stream ends or fails under read_logs
SessionFails(s) ==
    /\ sess[s] \in {"handshake", "reading"}
    /\ sess'[s] \notin {"handshake", "reading", "enqueue"}

\* C12: a failure confined to one connection ends only that session.  The
\* failing step changes nothing but that session, which goes on to its
\* ctx.send(-1); a session ends only by sending exactly one -1 and stays ended;
\* the accept loop, the other sessions and sendloop are where they were.
C12_FailureIsLocal ==
    /\ [][\A s \in Sessions :
             SessionFails(s)
                => /\ sess'[s] = "closing"
                   /\ \A o \in Sessions \ {s} : sess'[o] = sess[o]
                   /\ UNCHANGED notSessVars]_vars
    /\ [][\A s \in Sessions :
             /\ (sess[s] = "closing" /\ sess'[s] # "closing")
                   => sess'[s] = "done" /\ connChan' = Append(connChan, -1)
             /\ (sess[s] # "done" /\ sess'[s] = "done") => sess[s] = "closing"
             /\ sess[s] = "done" => sess'[s] = "done"]_vars

\* session 1 failed in handle_connection and has sent its -1; session 2 is
\* enqueuing, sendloop is running and the accept loop is still accepting
C12_Witness ==
    /\ sess[1] = "done"
    /\ nread[1] = 0
    /\ sess[2] = "enqueue"
    /\ slpc \in {"recv", "submit"}
    /\ mainpc = "incoming"
    /\ connTotal = 1

\* accept_loop has left through a startup-fatal failure: load_tls_config
\* failed (an error, or its panic) before the engine was constructed, or
\* connect found the broker unreachable
TlsStartupFailed == driver = "accept_loop" /\ ~created /\ mainpc \in {"ret_err", "panicked"}
BrokerStartupFailed == driver = "accept_loop" /\ fetched = "unreachable"

\* TcpListener::bind has succeeded: accept_loop is past line 91
ListenerBound == mainpc \in {"spawn_counter", "incoming", "send_plus"} \/ counterUp

\* C13: no partial startup.  Once load_tls_config has failed or the broker was
\* found unreachable, accept_loop has ended and there is, then and ever after,
\* no sendloop task, no counter thread, no bound listener, no accepted
\* connection, no session and no connection delta.
C13_NoPartialStartup ==
    (TlsStartupFailed \/ BrokerStartupFailed)
        => /\ mainpc \in {"ret_ok", "ret_err", "panicked"}
           /\ slpc = "none"
           /\ ~counterUp
           /\ ~ListenerBound
           /\ accepts = 0
           /\ stream = "none"
           /\ \A s \in Sessions : sess[s] = "none"
           /\ connChan = <<>>
           /\ gauge = <<>>
           /\ queue = <<>>

C13_Witness ==
    /\ BrokerStartupFailed
    /\ created
    /\ producer = "None"
    /\ mainpc = "ret_ok"

\* C14: every startup-fatal failure reaches the caller of accept_loop as a
\* failure: accept_loop ends with Err(..) (or unwinds with a panic), never
\* with the Ok(()) of a normal return.
C14_StartupFailurePropagated ==
    (TlsStartupFailed \/ BrokerStartupFailed) => mainpc \in {"ret_err", "panicked"}

\* the broker address a client configuration names: <<address>> or <<>>
BrokerAddress(c) == IF BootstrapServers \in DOMAIN c THEN << c[BootstrapServers] >> ELSE <<>>

\* c agrees with the map on every key but bootstrap.servers
OtherKeysUnchanged(c) ==
    \A k \in ConfKeys \ {BootstrapServers} :
        /\ k \in DOMAIN c <=> k \in DOMAIN rdkafka_conf
        /\ k \in DOMAIN c => c[k] = rdkafka_conf[k]

\* C15: the metadata consumer, and the producer connect retains, are created
\* from one configuration whose broker address is KAFKA_BROKER's value when
\* that variable is set (whatever the map says about bootstrap.servers) and
\* the map's bootstrap.servers when it is not set, and whose other keys are
\* the map's.
C15_BrokerAddressResolved ==
    /\ consumerConf # <<>>
         => /\ kafkaBrokerEnv.kind = "set"
                 => BrokerAddress(consumerConf[1]) = << kafkaBrokerEnv.value >>
            /\ kafkaBrokerEnv.kind = "unset"
                 => BrokerAddress(consumerConf[1]) = BrokerAddress(rdkafka_conf)
            /\ OtherKeysUnchanged(consumerConf[1])
    /\ producerConf # <<>> => consumerConf = producerConf
    /\ (producer = "Some") <=> (producerConf # <<>>)

\* KAFKA_BROKER overrides a map that names another broker, and the producer is
\* retained
C15_Witness ==
    /\ kafkaBrokerEnv = [kind |-> "set", value |-> "b:9092"]
    /\ BootstrapServers \in DOMAIN rdkafka_conf
    /\ rdkafka_conf[BootstrapServers] = "a:9092"
    /\ "client.id" \in DOMAIN rdkafka_conf
    /\ producer = "Some"
    /\ BrokerAddress(producerConf[1]) = << "b:9092" >>
    /\ cpc = "returned"

\* deliveries the broker client has completed, whatever their result
TotalDelivered == delivered["ok"] + delivered["production"] + delivered["other"]

\* C16: every message sendloop dequeues is handed to the broker client exactly
\* once, with or without metrics: the step that takes it out of sendloop's
\* hands puts that one record, not yet known to the client, into the client's
\* queue and returns to the receive.  A delivery, failed or not, and the
\* completion closure after it, submit nothing, enqueue nothing and leave
\* sendloop where it is; so the records submitted are exactly those still with
\* the client plus those delivered.
C16_SubmittedOnceDroppedOnFailure ==
    /\ [](/\ TotalSent = Cardinality(brokerq) + TotalDelivered
          /\ Len(queue) = TotalEnqueued - TotalDequeued
          /\ \A m \in brokerq \cup { task.msg : task \in pool } : m[2] <= nsent[m[1]]
          /\ kmsg # <<>> => kmsg[1] \notin brokerq \cup { task.msg : task \in pool })
    /\ [][(kmsg # <<>> /\ kmsg' # kmsg)
             => /\ brokerq' = brokerq \cup {kmsg[1]}
                /\ nsent' = [nsent EXCEPT ![kmsg[1][1]] = @ + 1]
                /\ kmsg' = <<>>
                /\ slpc' = "recv"]_vars
    /\ [][(delivered' # delivered \/ pool' # pool)
             => /\ UNCHANGED <<queue, kmsg, nsent, slpc>>
                /\ brokerq' \subseteq brokerq]_vars

\* without metrics: a delivery failed, its message is gone for good, and
\* sendloop has submitted the next message of the same producer
C16_Witness ==
    /\ metrics = "None"
    /\ delivered["ok"] = 0
    /\ TotalDelivered = 1
    /\ \E s \in Sessions : nsent[s] = 2 /\ brokerq = {Msg(s, 2)}
    /\ slpc = "recv"
    /\ queue = <<>>

\* sendloop is in its loop
LoopRunning == producer = "Some" /\ slpc \in {"recv", "submit"}

\* C17: with the engine Connected, sendloop running and the broker client
\* completing its deliveries, every enqueue completes and its message is
\* submitted: the k-th message of a producer waiting in send() is eventually
\* among the messages of that producer handed to the client, on a zero-capacity
\* channel too.  sendloop never leaves its loop, whether its receive yields a
\* message or expires.
C17_EnqueueLeadsToSubmit ==
    /\ \A s \in Sessions : \A k \in 1..MaxMsgs :
          (LoopRunning /\ sess[s] = "enqueue" /\ nread[s] = k)
              ~> (sess[s] # "enqueue" /\ nsent[s] >= k)
    /\ [][LoopRunning => LoopRunning']_vars

\* capacity 0: the second message of a producer went through the rendezvous and
\* was submitted, and sendloop waits on the empty channel again
C17_Witness ==
    /\ cap = 0
    /\ LoopRunning
    /\ slpc = "recv"
    /\ \E s \in Sessions : nsent[s] = 2 /\ sess[s] = "reading"
    /\ queue = <<>>

\* C18: collecting an outcome never holds up the next submission.  Whatever
\* deliveries are still with the client and whatever closures are still waiting
\* on the pool, sendloop can receive as soon as a message is queued and can
\* submit as soon as the client's queue has room.
C18_OutcomeDoesNotBlockSubmit ==
    /\ (slpc = "recv" /\ queue # <<>>) => ENABLED SendloopRecv
    /\ (slpc = "submit" /\ BrokerHasRoom) => ENABLED SendloopSubmit

\* the closure of a producer's second message has run while the closure of
\* its first message is still waiting on the pool
C18_Witness ==
    /\ metrics = "Some"
    /\ \E s \in Sessions :
          /\ nsent[s] = 2
          /\ \E task \in pool : task.msg = Msg(s, 1)
          /\ Msg(s, 2) \notin InFlight
    /\ BagCardinality(counters) = 1

\* C19: the accept loop never waits on a session.  Whatever the sessions are
\* doing, the loop at incoming.next() can take the next connection, the loop
\* at conn_tx.send(1) can go on as soon as the delta channel has room, and the
\* counter thread, which runs for as long as the loop does, can take a delta
\* whenever the channel holds one.
C19_AcceptNeverWaitsOnSession ==
    /\ mainpc \in {"incoming", "send_plus"} => counterUp
    /\ (mainpc = "incoming" /\ accepts < MaxConns) => ENABLED AcceptIncoming
    /\ (mainpc = "send_plus" /\ ChanCanSend(connChan, ConnChanCap)) => ENABLED AcceptStream
    /\ (counterUp /\ connChan # <<>>) => ENABLED CounterRecv

\* session 1 is blocked in enqueue on a Relay Queue without room (sendloop
\* has not reached its receive), the next connection has arrived and its +1
\* and its session can go ahead
C19_Witness ==
    /\ sess[1] = "enqueue"
    /\ ~ChanCanSend(queue, cap)
    /\ slpc = "entry"
    /\ mainpc = "send_plus"
    /\ stream = "ok"
    /\ accepts = 1
    /\ ENABLED AcceptStream

\* sum of the deltas waiting in the delta channel
RECURSIVE SumSeq(_)
SumSeq(q) == IF q = <<>> THEN 0 ELSE Head(q) + SumSeq(Tail(q))

\* C20: no connection delta is lost or applied twice, and the deltas are one
\* +1 per accepted connection and one -1 per concluded session: the total the
\* counter thread holds plus the deltas still in the channel is the number of
\* connections accepted minus the number of sessions concluded, the gauge
\* shows the total after each delta, never below 0 and never above the
\* connections accepted; so once K connections were accepted, all K sessions
\* have concluded and the channel is drained, the gauge is back at 0.
C20_EveryDeltaAppliedOnce ==
    /\ connTotal + SumSeq(connChan) = accepts - Cardinality(Concluded)
    /\ gauge # <<>> => gauge[1] = connTotal
    /\ connTotal >= 0
    /\ connTotal <= accepts
    /\ (accepts > 0 /\ Cardinality(Concluded) = accepts /\ connChan = <<>>) => gauge = <<0>>

====
